---- MODULE Spec2Model ----
(***************************************************************************)
(* Crawl orchestration of sancrawler2.  Two programs are modelled:         *)
(*   "http" : the HTTP-scraping program (src/unnamed/part_001, l.1-340):   *)
(*            getNames is the coordinator, the anonymous goroutine of      *)
(*            l.165-191 is a discovery task, crawlerFn is a worker;        *)
(*   "pag"  : the paginated program (src/sancrawler.go):                   *)
(*            getDomainsByKeyword is the coordinator, loadCrawlerData the  *)
(*            (synchronous) discovery, getNames a worker.                  *)
(* A run executes one of them; prog says which.                            *)
(***************************************************************************)
EXTENDS Integers, Sequences, FiniteSets, TLC

(* ------------------------------ bounds -------------------------------- *)

\* most authority units the partition lookup returns
MaxUnits == 2
\* largest value of the -t flag (goroutines) of the HTTP program
MaxCrawlers == 2

(* ------------------------- program constants -------------------------- *)

\* capacity of idChan and nameChan (part_001 l.21: 100000), scaled so that
\* the identifiers of MaxUnits units can exceed it
maxChanLen == 3
\* capacity of sanChan, cnChan and domainChan (sancrawler.go l.214-216:
\* 10000), scaled
pagChanLen == 2
\* LIMIT of the page queries (sancrawler.go l.190, l.201: 2000), scaled
pageLimit == 2
\* estimated records served by one crawler pair (sancrawler.go l.163-166)
certsPerCrawler == 10000
\* len("commonName=") and len("DNS:"), the slice starts of part_001 l.81, l.88
cnPrefixLen == 11
dnsPrefixLen == 4

(* ------------------------------ strings -------------------------------- *)

\* strings.ToLower on one byte
LowerCh(c) ==
    CASE c = "A" -> "a"
      [] c = "B" -> "b"
      [] c = "C" -> "c"
      [] OTHER -> c

\* strings.ToLower
ToLower(s) == [k \in DOMAIN s |-> LowerCh(s[k])]

IsLower(s) == \A k \in DOMAIN s : LowerCh(s[k]) = s[k]

Range(s) == {s[k] : k \in DOMAIN s}

\* m[n : len(m)-1]
Strip(m, n) == SubSeq(m, n + 1, Len(m) - 1)

CnPrefix == <<"c", "o", "m", "m", "o", "n", "N", "a", "m", "e", "=">>
DnsPrefix == <<"D", "N", "S", ":">>

\* what commonNameRegex / sanRegex match for a name: prefix, name, "<"
CnMatch(name) == CnPrefix \o name \o <<"<">>
DnsMatch(name) == DnsPrefix \o name \o <<"<">>

(* ------------------------------ upstream ------------------------------- *)

\* The names on the certificate page crt.sh serves for identifier
\* id = <<"id", u, k>>: cn after "commonName=" (the issuer's first), dns after
\* "DNS:", each in page order.
PageNames(id) ==
    CASE id[2] % 2 = 1 /\ id[3] = 1 ->
           [cn |-> << <<"C", "a">>, <<"A", "b">> >>, dns |-> << <<"a", "b">> >>]
      [] id[2] % 2 = 1 /\ id[3] = 2 ->
           [cn |-> << <<"C", "a">> >>, dns |-> << <<"a", "B">>, <<"b">> >>]
      [] id[2] % 2 = 0 /\ id[3] = 1 ->
           [cn |-> << <<"C", "a">>, <<"b">>, <<"A", "b">> >>, dns |-> <<>>]
      [] OTHER ->
           [cn |-> <<>>, dns |-> <<>>]

\* The page as the FindAllString results of the two regexes on it (nil, the
\* empty sequence, when nothing matches).
Body(id) ==
    [commonNames |-> [k \in DOMAIN PageNames(id).cn |-> CnMatch(PageNames(id).cn[k])],
     san         |-> [k \in DOMAIN PageNames(id).dns |-> DnsMatch(PageNames(id).dns[k])]]

\* The rows the read replica holds for one authority unit and one query
\* (sanQuery / cnQuery), in ORDER BY order.
Rows(kind, caID) ==
    IF kind = "san"
    THEN IF caID % 2 = 1
         THEN << <<"A", "b">>, <<"a", "b">>, <<"b">>, <<"a">>, <<"a", "B">> >>
         ELSE <<>>
    ELSE IF caID % 2 = 1 THEN << <<"A", "B">> >> ELSE << <<"b">> >>

\* OFFSET offset LIMIT pageLimit
Page(kind, caID, offset) ==
    LET rows == Rows(kind, caID)
        last == IF offset + pageLimit < Len(rows) THEN offset + pageLimit ELSE Len(rows)
    IN  SubSeq(rows, offset + 1, last)

(* ------------------------------- state --------------------------------- *)

VARIABLES
    prog,          \* "http" or "pag"
    units,         \* what the partition lookup returns: units[u] = num_certs of unit u
    numCrawlers,   \* -t flag (http) / result of loadCrawlerData (pag)
    numTotalCerts, \* loadCrawlerData's running sum
    idChan,        \* http job queue
    nameChan,      \* http result queue
    sanChan,       \* pag job queue of the SAN workers
    cnChan,        \* pag job queue of the Common-Name workers
    domainChan,    \* pag result queue
    doneChan,      \* completion / termination signals
    names,         \* keys of getNames' map (http)
    ret,           \* keys of getDomainsByKeyword's map (pag)
    cpc,           \* coordinator's position
    ci,            \* coordinator's loop index i
    count,         \* discovery completions counted (http)
    disc,          \* discovery goroutines (http)
    wk,            \* workers
    fatal,         \* the panic / log.Fatal that ended the process, if any
    deq,           \* history: times each job was received from its queue
    pushed,        \* history: candidates sent on the result queue, per job
    fin,           \* history: times the processing of each job completed
    lookup,        \* outcome of the partition lookup
    outfile,       \* what main's output step wrote
    pj,            \* one call of patchJSON: its argument, locals and builder
    queried,       \* history: offsets of the page queries answered, per job
    single         \* the single-query program: the rows of its query, read and unread

vars == <<prog, units, numCrawlers, numTotalCerts, idChan, nameChan, sanChan,
          cnChan, domainChan, doneChan, names, ret, cpc, ci, count, disc, wk,
          fatal, deq, pushed, fin, lookup, outfile, pj, queried, single>>

chans == <<idChan, nameChan, sanChan, cnChan, domainChan, doneChan>>
hist == <<deq, pushed, fin>>
aux == <<lookup, outfile, pj, queried, single>>

numUnits == Len(units)

\* num_certs values the lookup may report, per program
HttpCerts == {1, 2}
PagCerts == {5000, 6000, 9000, 12000}

\* goroutines started by the spawn loop: numCrawlers (http), 2*numCrawlers (pag)
MaxWorkers ==
    LET pagMax == 2 * ((12000 * MaxUnits) \div certsPerCrawler)
    IN  IF MaxCrawlers > pagMax THEN MaxCrawlers ELSE pagMax
Workers == 1 .. MaxWorkers

NoJob == <<"none", 0, 0>>
ID(u, k) == <<"id", u, k>>
JobKeys == ({"id"} \X (1 .. MaxUnits) \X HttpCerts)
             \cup ({"san", "cn"} \X (1 .. MaxUnits) \X {0})

\* no single query has been made
NoQuery == [all |-> <<>>, left |-> <<>>]

\* no call of patchJSON is being followed
NoCall == [pc |-> "none", objs |-> <<>>, lead |-> <<>>, gap |-> <<>>, tail |-> <<>>,
           jsondata |-> <<>>, i |-> 0, balanced |-> 0, builder |-> <<>>,
           commas |-> <<>>]

NoFatal == [kind |-> "none", attempts |-> 0]
aborted == fatal # NoFatal

\* tries: fetches issued so far for the job in hand
IdleWorker == [pc |-> "none", kind |-> "none", job |-> NoJob, tries |-> 0,
               out |-> <<>>, offset |-> 0, count |-> 0]
IdleDisc == [pc |-> "none", ids |-> <<>>]

Init ==
    /\ prog \in {"http", "pag"}
    /\ units \in UNION {[1 .. n -> IF prog = "http" THEN HttpCerts ELSE PagCerts] :
                          n \in 0 .. MaxUnits}
    /\ numCrawlers \in IF prog = "http" THEN 1 .. MaxCrawlers ELSE {0}
    /\ numTotalCerts = 0
    /\ idChan = <<>> /\ nameChan = <<>>
    /\ sanChan = <<>> /\ cnChan = <<>> /\ domainChan = <<>>
    /\ doneChan = <<>>
    /\ names = {} /\ ret = {}
    /\ cpc = "lookup" /\ ci = 0 /\ count = 0
    /\ disc = [u \in 1 .. MaxUnits |-> IdleDisc]
    /\ wk = [w \in Workers |-> IdleWorker]
    /\ fatal = NoFatal
    /\ deq = [j \in JobKeys |-> 0]
    /\ pushed = [j \in JobKeys |-> <<>>]
    /\ fin = [j \in JobKeys |-> 0]
    /\ lookup = "none"
    /\ outfile = {}
    /\ pj = NoCall
    /\ queried = [j \in JobKeys |-> <<>>]
    /\ single = NoQuery

\* mutant: a panic or log.Fatal is logged and the goroutines carry on
Running_AfterFatal(p) == prog = p

\* the program p is the one run, and no panic or log.Fatal has ended the process
Running(p) == prog = p /\ ~aborted

Abort(kind, n) == fatal' = [kind |-> kind, attempts |-> n]

(* ------------------ http: getNames, the coordinator -------------------- *)

\* part_001 l.141-157: the partition lookup answers
GetNames_LookupOk ==
    /\ Running("http") /\ cpc = "lookup"
    /\ lookup' = "ok"
    /\ cpc' = "spawnDisc" /\ ci' = 0
    /\ UNCHANGED <<prog, units, outfile, pj, queried, single, numCrawlers, numTotalCerts, chans, names, ret,
                   count, disc, wk, fatal, hist>>

\* part_001 l.143-145: http.Get fails, panic
GetNames_LookupFail ==
    /\ Running("http") /\ cpc = "lookup"
    /\ lookup' = "error"
    /\ Abort("partition", 1)
    /\ UNCHANGED <<prog, units, outfile, pj, queried, single, numCrawlers, numTotalCerts,
                   chans, names, ret, cpc, ci, count, disc, wk, hist>>

\* part_001 l.151-157: the body is not an array of objects after patchJSON
\* (crt.sh's time-out page, for one): json.Unmarshal fails, "FATAL: ..." is
\* printed and getNames returns nil, a map without keys
GetNames_LookupUnparseable ==
    /\ Running("http") /\ cpc = "lookup"
    /\ lookup' = "unparseable"
    /\ cpc' = "returned"
    /\ UNCHANGED <<prog, units, outfile, pj, queried, single, numCrawlers, numTotalCerts,
                   chans, names, ret, ci, count, disc, wk, fatal, hist>>

\* part_001 l.163-192: one goroutine per authority unit
GetNames_SpawnDiscovery ==
    /\ Running("http") /\ cpc = "spawnDisc"
    /\ IF ci < numUnits
       THEN /\ disc' = [disc EXCEPT ![ci + 1].pc = "get"]
            /\ ci' = ci + 1
            /\ cpc' = cpc
       ELSE /\ cpc' = "count" /\ ci' = 0
            /\ disc' = disc
    /\ UNCHANGED <<prog, units, aux, numCrawlers, numTotalCerts, chans, names, ret,
                   count, wk, fatal, hist>>

\* mutant: the count loop waits for the first completion only
DiscoveryPending_FirstOnly == count = 0 /\ numUnits # 0

\* part_001 l.197: the loop condition count != len(groupedCAIDs)
DiscoveryPending == count # numUnits

\* part_001 l.196-204: case <-doneChan: count++ (default: continue spins)
GetNames_Count ==
    /\ Running("http") /\ cpc = "count"
    /\ DiscoveryPending
    /\ doneChan # <<>>
    /\ doneChan' = Tail(doneChan)
    /\ count' = count + 1
    /\ UNCHANGED <<prog, units, aux, numCrawlers, numTotalCerts, idChan, nameChan,
                   sanChan, cnChan, domainChan, names, ret, cpc, ci, disc, wk,
                   fatal, hist>>

\* part_001 l.197: the loop ends
GetNames_CountDone ==
    /\ Running("http") /\ cpc = "count"
    /\ ~DiscoveryPending
    /\ cpc' = "spawn" /\ ci' = 0
    /\ UNCHANGED <<prog, units, aux, numCrawlers, numTotalCerts, chans, names, ret,
                   count, disc, wk, fatal, hist>>

\* part_001 l.222-224: go crawlerFn(...)
GetNames_Spawn ==
    /\ Running("http") /\ cpc = "spawn"
    /\ IF ci < numCrawlers
       THEN /\ wk' = [wk EXCEPT ![ci + 1] = [IdleWorker EXCEPT !.pc = "select", !.kind = "id"]]
            /\ ci' = ci + 1
            /\ cpc' = cpc
       ELSE /\ cpc' = "waitLen" /\ ci' = 0
            /\ wk' = wk
    /\ UNCHANGED <<prog, units, aux, numCrawlers, numTotalCerts, chans, names, ret,
                   count, disc, fatal, hist>>

\* mutant: the coordinator does not wait for idChan to drain
IdsLeft_NoWait == FALSE

\* part_001 l.229: the loop condition len(idChan) > 0
IdsLeft == Len(idChan) > 0

\* part_001 l.229: evaluate the loop condition
GetNames_WaitLen ==
    /\ Running("http") /\ cpc = "waitLen"
    /\ cpc' = IF IdsLeft THEN "waitSel" ELSE "signal"
    /\ UNCHANGED <<prog, units, aux, numCrawlers, numTotalCerts, chans, names, ret,
                   ci, count, disc, wk, fatal, hist>>

\* part_001 l.230-235: case n := <-nameChan: names[n] = 0; default: continue
GetNames_WaitSelect ==
    /\ Running("http") /\ cpc = "waitSel"
    /\ IF nameChan # <<>>
       THEN /\ names' = names \cup {Head(nameChan)}
            /\ nameChan' = Tail(nameChan)
       ELSE UNCHANGED <<names, nameChan>>
    /\ cpc' = "waitLen"
    /\ UNCHANGED <<prog, units, aux, numCrawlers, numTotalCerts, idChan, sanChan,
                   cnChan, domainChan, doneChan, ret, ci, count, disc, wk,
                   fatal, hist>>

\* mutant: one termination signal too few
HttpSignals_OneShort == numCrawlers - 1

\* part_001 l.240: the number of termination signals
HttpSignals == numCrawlers

\* part_001 l.299: doneChan = make(chan bool, *threads)
HttpDoneCap == numCrawlers

\* part_001 l.240-242: doneChan <- true, numCrawlers times
GetNames_Signal ==
    /\ Running("http") /\ cpc = "signal"
    /\ IF ci < HttpSignals
       THEN /\ Len(doneChan) < HttpDoneCap
            /\ doneChan' = Append(doneChan, TRUE)
            /\ ci' = ci + 1
            /\ cpc' = cpc
       ELSE /\ cpc' = "drainLen1" /\ ci' = 0
            /\ doneChan' = doneChan
    /\ UNCHANGED <<prog, units, aux, numCrawlers, numTotalCerts, idChan, nameChan,
                   sanChan, cnChan, domainChan, names, ret, count, disc, wk,
                   fatal, hist>>

\* part_001 l.246: left operand of ||, len(nameChan) > 0
GetNames_DrainLenName ==
    /\ Running("http") /\ cpc = "drainLen1"
    /\ cpc' = IF Len(nameChan) > 0 THEN "drainSel" ELSE "drainLen2"
    /\ UNCHANGED <<prog, units, aux, numCrawlers, numTotalCerts, chans, names, ret,
                   ci, count, disc, wk, fatal, hist>>

\* mutant: the final loop does not look at doneChan
SignalsPending_Ignored == FALSE

\* part_001 l.246: right operand of ||
SignalsPending == Len(doneChan) > 0

\* part_001 l.246: evaluate the right operand of ||; l.255-256: return names
GetNames_DrainLenDone ==
    /\ Running("http") /\ cpc = "drainLen2"
    /\ cpc' = IF SignalsPending THEN "drainSel" ELSE "returned"
    /\ UNCHANGED <<prog, units, aux, numCrawlers, numTotalCerts, chans, names, ret,
                   ci, count, disc, wk, fatal, hist>>

\* part_001 l.247-252: case n := <-nameChan: names[n] = 0; default: continue
GetNames_DrainSelect ==
    /\ Running("http") /\ cpc = "drainSel"
    /\ IF nameChan # <<>>
       THEN /\ names' = names \cup {Head(nameChan)}
            /\ nameChan' = Tail(nameChan)
       ELSE UNCHANGED <<names, nameChan>>
    /\ cpc' = "drainLen1"
    /\ UNCHANGED <<prog, units, aux, numCrawlers, numTotalCerts, idChan, sanChan,
                   cnChan, domainChan, doneChan, ret, ci, count, disc, wk,
                   fatal, hist>>

(* --------------- http: the discovery goroutine of a unit --------------- *)

\* part_001 l.182: the identifiers found on the unit's page, n = num_certs of them
IdsOf(u) == [k \in 1 .. units[u] |-> ID(u, k)]

\* part_001 l.169-182: the bulk identifier request answers
Discover_GetOk(u) ==
    /\ Running("http") /\ disc[u].pc = "get"
    /\ disc' = [disc EXCEPT ![u] = [pc |-> "send", ids |-> IdsOf(u)]]
    /\ UNCHANGED <<prog, units, aux, numCrawlers, numTotalCerts, chans, names, ret,
                   cpc, ci, count, wk, fatal, hist>>

\* part_001 l.173-175: the bulk identifier request fails, panic
Discover_GetFail(u) ==
    /\ Running("http") /\ disc[u].pc = "get"
    /\ Abort("discovery", 1)
    /\ UNCHANGED <<prog, units, aux, numCrawlers, numTotalCerts, chans, names, ret,
                   cpc, ci, count, disc, wk, hist>>

\* part_001 l.186-188: idChan <- id (blocks while idChan is full)
Discover_SendID(u) ==
    /\ Running("http") /\ disc[u].pc = "send"
    /\ disc[u].ids # <<>>
    /\ Len(idChan) < maxChanLen
    /\ idChan' = Append(idChan, Head(disc[u].ids))
    /\ disc' = [disc EXCEPT ![u].ids = Tail(@)]
    /\ UNCHANGED <<prog, units, aux, numCrawlers, numTotalCerts, nameChan, sanChan,
                   cnChan, domainChan, doneChan, names, ret, cpc, ci, count,
                   wk, fatal, hist>>

\* mutant: the completion signal does not wait for the range loop
AllEnqueued_Early(u) == TRUE

\* part_001 l.186-188: the range loop over ids has ended
AllEnqueued(u) == disc[u].ids = <<>>

\* part_001 l.190: doneChan <- true (blocks while doneChan is full)
Discover_SendDone(u) ==
    /\ Running("http") /\ disc[u].pc = "send"
    /\ AllEnqueued(u)
    /\ Len(doneChan) < HttpDoneCap
    /\ doneChan' = Append(doneChan, TRUE)
    /\ disc' = [disc EXCEPT ![u].pc = "exit"]
    /\ UNCHANGED <<prog, units, aux, numCrawlers, numTotalCerts, idChan, nameChan,
                   sanChan, cnChan, domainChan, names, ret, cpc, ci, count,
                   wk, fatal, hist>>

(* ----------------------- http: crawlerFn, a worker --------------------- *)

\* mutant: the issuer's Common Name is sent as well
CommonNameCandidates_All(commonNames) ==
    [k \in 1 .. Len(commonNames) |-> Strip(commonNames[k], cnPrefixLen)]

\* part_001 l.78-83: every Common-Name match but the first, stripped
CommonNameCandidates(commonNames) ==
    IF commonNames = <<>> THEN <<>>
    ELSE [k \in 1 .. Len(commonNames) - 1 |-> Strip(commonNames[k + 1], cnPrefixLen)]

\* mutant: the first DNS match is skipped like the first Common Name
SanCandidates_SkipFirst(san) ==
    IF san = <<>> THEN <<>>
    ELSE [k \in 1 .. Len(san) - 1 |-> Strip(san[k + 1], dnsPrefixLen)]

\* part_001 l.85-90: every DNS match, stripped
SanCandidates(san) == [k \in 1 .. Len(san) |-> Strip(san[k], dnsPrefixLen)]

\* part_001 l.70-90: what the worker sends for one fetched page, in order
Candidates(body) == CommonNameCandidates(body.commonNames) \o SanCandidates(body.san)

\* the worker's state after a fetch of its job's page has answered
Fetched(w) ==
    LET out == Candidates(Body(wk[w].job))
    IN  IF out = <<>>
        THEN /\ wk' = [wk EXCEPT ![w].pc = "select", ![w].job = NoJob, ![w].tries = 0]
             /\ fin' = [fin EXCEPT ![wk[w].job] = @ + 1]
        ELSE /\ wk' = [wk EXCEPT ![w].pc = "push", ![w].out = out, ![w].tries = @ + 1]
             /\ fin' = fin

\* part_001 l.44-45: case <-doneChan: return
CrawlerFn_Done(w) ==
    /\ Running("http") /\ wk[w].pc = "select"
    /\ doneChan # <<>>
    /\ doneChan' = Tail(doneChan)
    /\ wk' = [wk EXCEPT ![w].pc = "exit"]
    /\ UNCHANGED <<prog, units, aux, numCrawlers, numTotalCerts, idChan, nameChan,
                   sanChan, cnChan, domainChan, names, ret, cpc, ci, count,
                   disc, fatal, hist>>

\* part_001 l.48: case id := <-idChan
CrawlerFn_TakeID(w) ==
    /\ Running("http") /\ wk[w].pc = "select"
    /\ idChan # <<>>
    /\ idChan' = Tail(idChan)
    /\ wk' = [wk EXCEPT ![w].pc = "get", ![w].job = Head(idChan)]
    /\ deq' = [deq EXCEPT ![Head(idChan)] = @ + 1]
    /\ UNCHANGED <<prog, units, aux, numCrawlers, numTotalCerts, nameChan, sanChan,
                   cnChan, domainChan, doneChan, names, ret, cpc, ci, count,
                   disc, fatal, pushed, fin>>

\* part_001 l.50, l.70-75: the first http.Get answers
CrawlerFn_GetOk(w) ==
    /\ Running("http") /\ wk[w].pc = "get"
    /\ Fetched(w)
    /\ UNCHANGED <<prog, units, aux, numCrawlers, numTotalCerts, chans, names, ret,
                   cpc, ci, count, disc, fatal, deq, pushed>>

\* mutant: a job whose fetch failed is put back on idChan
CrawlerFn_GetFail_Requeue(w) ==
    /\ Running("http") /\ wk[w].pc = "get"
    /\ Len(idChan) < maxChanLen
    /\ idChan' = Append(idChan, wk[w].job)
    /\ wk' = [wk EXCEPT ![w].pc = "select", ![w].job = NoJob]
    /\ UNCHANGED <<prog, units, aux, numCrawlers, numTotalCerts, nameChan, sanChan,
                   cnChan, domainChan, doneChan, names, ret, cpc, ci, count,
                   disc, fatal, hist>>

\* part_001 l.52-55: the first http.Get fails; sleep, then retry
CrawlerFn_GetFail(w) ==
    /\ Running("http") /\ wk[w].pc = "get"
    /\ wk' = [wk EXCEPT ![w].pc = "retry", ![w].tries = @ + 1]
    /\ UNCHANGED <<prog, units, aux, numCrawlers, numTotalCerts, chans, names, ret,
                   cpc, ci, count, disc, fatal, hist>>

\* part_001 l.56, l.70-75: the second http.Get answers
CrawlerFn_RetryOk(w) ==
    /\ Running("http") /\ wk[w].pc = "retry"
    /\ Fetched(w)
    /\ UNCHANGED <<prog, units, aux, numCrawlers, numTotalCerts, chans, names, ret,
                   cpc, ci, count, disc, fatal, deq, pushed>>

\* mutant: after the failed retry the worker drops the job and goes on
CrawlerFn_RetryFail_Skip(w) ==
    /\ Running("http") /\ wk[w].pc = "retry"
    /\ wk' = [wk EXCEPT ![w].pc = "select", ![w].job = NoJob, ![w].tries = 0]
    /\ fin' = [fin EXCEPT ![wk[w].job] = @ + 1]
    /\ UNCHANGED <<prog, units, aux, numCrawlers, numTotalCerts, chans, names, ret,
                   cpc, ci, count, disc, fatal, deq, pushed>>

\* part_001 l.56-60: the second http.Get fails, panic
CrawlerFn_RetryFail(w) ==
    /\ Running("http") /\ wk[w].pc = "retry"
    /\ Abort("record", wk[w].tries + 1)
    /\ UNCHANGED <<prog, units, aux, numCrawlers, numTotalCerts, chans, names, ret,
                   cpc, ci, count, disc, wk, hist>>

\* mutant: the worker stores the candidate in the map itself
CrawlerFn_Push_Direct(w) ==
    /\ Running("http") /\ wk[w].pc = "push"
    /\ names' = names \cup {Head(wk[w].out)}
    /\ pushed' = [pushed EXCEPT ![wk[w].job] = Append(@, Head(wk[w].out))]
    /\ IF Tail(wk[w].out) = <<>>
       THEN /\ wk' = [wk EXCEPT ![w].pc = "select", ![w].job = NoJob,
                                 ![w].tries = 0, ![w].out = <<>>]
            /\ fin' = [fin EXCEPT ![wk[w].job] = @ + 1]
       ELSE /\ wk' = [wk EXCEPT ![w].out = Tail(@)]
            /\ fin' = fin
    /\ UNCHANGED <<prog, units, aux, numCrawlers, numTotalCerts, chans, ret, cpc,
                   ci, count, disc, fatal, deq>>

\* part_001 l.81, l.88: nameChan <- candidate (blocks while nameChan is full);
\* after the last one the worker is back at its select
CrawlerFn_Push(w) ==
    /\ Running("http") /\ wk[w].pc = "push"
    /\ Len(nameChan) < maxChanLen
    /\ nameChan' = Append(nameChan, Head(wk[w].out))
    /\ pushed' = [pushed EXCEPT ![wk[w].job] = Append(@, Head(wk[w].out))]
    /\ IF Tail(wk[w].out) = <<>>
       THEN /\ wk' = [wk EXCEPT ![w].pc = "select", ![w].job = NoJob,
                                 ![w].tries = 0, ![w].out = <<>>]
            /\ fin' = [fin EXCEPT ![wk[w].job] = @ + 1]
       ELSE /\ wk' = [wk EXCEPT ![w].out = Tail(@)]
            /\ fin' = fin
    /\ UNCHANGED <<prog, units, aux, numCrawlers, numTotalCerts, idChan, sanChan,
                   cnChan, domainChan, doneChan, names, ret, cpc, ci, count,
                   disc, fatal, deq>>

(* ------------------ pag: loadCrawlerData, the discovery ---------------- *)

\* sancrawler.go l.150-153: the crawlerData of a row of the lookup
CrawlerData(u) == [caID |-> u, start |-> 0, stop |-> units[u]]

\* sancrawler.go l.134: the partition lookup answers
LoadCrawlerData_QueryOk ==
    /\ Running("pag") /\ cpc = "lookup"
    /\ lookup' = "ok"
    /\ cpc' = "loadSan" /\ ci' = 0
    /\ UNCHANGED <<prog, units, outfile, pj, queried, single, numCrawlers, numTotalCerts, chans, names, ret,
                   count, disc, wk, fatal, hist>>

\* sancrawler.go l.135-138: the partition lookup fails, log.Fatal
LoadCrawlerData_QueryFail ==
    /\ Running("pag") /\ cpc = "lookup"
    /\ lookup' = "error"
    /\ Abort("partition", 1)
    /\ UNCHANGED <<prog, units, outfile, pj, queried, single, numCrawlers, numTotalCerts,
                   chans, names, ret, cpc, ci, count, disc, wk, hist>>

\* sancrawler.go l.146-148: rows.Scan fails on the next row, log.Fatal
LoadCrawlerData_ScanFail ==
    /\ Running("pag") /\ cpc = "loadSan"
    /\ ci < numUnits
    /\ lookup' = "error"
    /\ Abort("scan", 1)
    /\ UNCHANGED <<prog, units, outfile, pj, queried, single, numCrawlers, numTotalCerts,
                   chans, names, ret, cpc, ci, count, disc, wk, hist>>

\* sancrawler.go l.140-155: next row; sanChan <- tmpData (blocks while full)
LoadCrawlerData_SendSan ==
    /\ Running("pag") /\ cpc = "loadSan"
    /\ ci < numUnits
    /\ Len(sanChan) < pagChanLen
    /\ sanChan' = Append(sanChan, CrawlerData(ci + 1))
    /\ cpc' = "loadCn"
    /\ UNCHANGED <<prog, units, aux, numCrawlers, numTotalCerts, idChan, nameChan,
                   cnChan, domainChan, doneChan, names, ret, ci, count, disc,
                   wk, fatal, hist>>

\* sancrawler.go l.156-157: cnChan <- tmpData (blocks while full); numTotalCerts += numCerts
LoadCrawlerData_SendCn ==
    /\ Running("pag") /\ cpc = "loadCn"
    /\ Len(cnChan) < pagChanLen
    /\ cnChan' = Append(cnChan, CrawlerData(ci + 1))
    /\ numTotalCerts' = numTotalCerts + units[ci + 1]
    /\ ci' = ci + 1
    /\ cpc' = "loadSan"
    /\ UNCHANGED <<prog, units, aux, numCrawlers, idChan, nameChan, sanChan,
                   domainChan, doneChan, names, ret, count, disc, wk, fatal,
                   hist>>

\* sancrawler.go l.163-167
\* mutant: the quotient is rounded up
NumCrawlers_RoundUp(total) ==
    IF total < certsPerCrawler THEN 1
    ELSE (total + certsPerCrawler - 1) \div certsPerCrawler

NumCrawlers(total) ==
    IF total < certsPerCrawler THEN 1 ELSE total \div certsPerCrawler

\* sancrawler.go l.160-170, l.217: no row is left; return numCrawlers
LoadCrawlerData_Return ==
    /\ Running("pag") /\ cpc = "loadSan"
    /\ ci = numUnits
    /\ numCrawlers' = NumCrawlers(numTotalCerts)
    /\ cpc' = "spawn" /\ ci' = 0
    /\ UNCHANGED <<prog, units, aux, numTotalCerts, chans, names, ret, count, disc,
                   wk, fatal, hist>>

(* -------------- pag: getDomainsByKeyword, the coordinator -------------- *)

\* mutant: one goroutine and one signal per crawler
PagWorkers_OnePerCrawler == numCrawlers

\* sancrawler.go l.220, l.240: goroutines started, signals sent
PagWorkers == numCrawlers * 2

\* sancrawler.go l.218: doneChan := make(chan bool, numCrawlers*2)
PagDoneCap == numCrawlers * 2

\* sancrawler.go l.220-223: go getNames(sanQuery, ...); go getNames(cnQuery, ...)
GetDomainsByKeyword_Spawn ==
    /\ Running("pag") /\ cpc = "spawn"
    /\ IF ci < PagWorkers
       THEN /\ wk' = [wk EXCEPT ![ci + 1] =
                        [IdleWorker EXCEPT !.pc = "select",
                                           !.kind = IF ci % 2 = 0 THEN "san" ELSE "cn"]]
            /\ ci' = ci + 1
            /\ cpc' = cpc
       ELSE /\ cpc' = "waitLen" /\ ci' = 0
            /\ wk' = wk
    /\ UNCHANGED <<prog, units, aux, numCrawlers, numTotalCerts, chans, names, ret,
                   count, disc, fatal, hist>>

\* sancrawler.go l.228: left operand of ||, len(sanChan) > 0
GetDomainsByKeyword_WaitLenSan ==
    /\ Running("pag") /\ cpc = "waitLen"
    /\ cpc' = IF Len(sanChan) > 0 THEN "waitSel" ELSE "waitLen2"
    /\ UNCHANGED <<prog, units, aux, numCrawlers, numTotalCerts, chans, names, ret,
                   ci, count, disc, wk, fatal, hist>>

\* sancrawler.go l.228: right operand of ||, len(cnChan) > 0
GetDomainsByKeyword_WaitLenCn ==
    /\ Running("pag") /\ cpc = "waitLen2"
    /\ cpc' = IF Len(cnChan) > 0 THEN "waitSel" ELSE "signal"
    /\ UNCHANGED <<prog, units, aux, numCrawlers, numTotalCerts, chans, names, ret,
                   ci, count, disc, wk, fatal, hist>>

\* sancrawler.go l.229-235: case tmp := <-domainChan: ret[tmp] = 0; default: continue
GetDomainsByKeyword_WaitSelect ==
    /\ Running("pag") /\ cpc = "waitSel"
    /\ IF domainChan # <<>>
       THEN /\ ret' = ret \cup {Head(domainChan)}
            /\ domainChan' = Tail(domainChan)
       ELSE UNCHANGED <<ret, domainChan>>
    /\ cpc' = "waitLen"
    /\ UNCHANGED <<prog, units, aux, numCrawlers, numTotalCerts, idChan, nameChan,
                   sanChan, cnChan, doneChan, names, ci, count, disc, wk,
                   fatal, hist>>

\* sancrawler.go l.240-242: doneChan <- true, numCrawlers*2 times
GetDomainsByKeyword_Signal ==
    /\ Running("pag") /\ cpc = "signal"
    /\ IF ci < PagWorkers
       THEN /\ Len(doneChan) < PagDoneCap
            /\ doneChan' = Append(doneChan, TRUE)
            /\ ci' = ci + 1
            /\ cpc' = cpc
       ELSE /\ cpc' = "drainLen1" /\ ci' = 0
            /\ doneChan' = doneChan
    /\ UNCHANGED <<prog, units, aux, numCrawlers, numTotalCerts, idChan, nameChan,
                   sanChan, cnChan, domainChan, names, ret, count, disc, wk,
                   fatal, hist>>

\* sancrawler.go l.246: left operand of ||, len(doneChan) > 0
GetDomainsByKeyword_DrainLenDone ==
    /\ Running("pag") /\ cpc = "drainLen1"
    /\ cpc' = IF Len(doneChan) > 0 THEN "drainSel" ELSE "drainLen2"
    /\ UNCHANGED <<prog, units, aux, numCrawlers, numTotalCerts, chans, names, ret,
                   ci, count, disc, wk, fatal, hist>>

\* sancrawler.go l.246: right operand of ||, len(domainChan) > 0; l.256: return ret
GetDomainsByKeyword_DrainLenDomain ==
    /\ Running("pag") /\ cpc = "drainLen2"
    /\ cpc' = IF Len(domainChan) > 0 THEN "drainSel" ELSE "returned"
    /\ UNCHANGED <<prog, units, aux, numCrawlers, numTotalCerts, chans, names, ret,
                   ci, count, disc, wk, fatal, hist>>

\* sancrawler.go l.247-253: case tmp := <-domainChan: ret[tmp] = 0; default: continue
GetDomainsByKeyword_DrainSelect ==
    /\ Running("pag") /\ cpc = "drainSel"
    /\ IF domainChan # <<>>
       THEN /\ ret' = ret \cup {Head(domainChan)}
            /\ domainChan' = Tail(domainChan)
       ELSE UNCHANGED <<ret, domainChan>>
    /\ cpc' = "drainLen1"
    /\ UNCHANGED <<prog, units, aux, numCrawlers, numTotalCerts, idChan, nameChan,
                   sanChan, cnChan, doneChan, names, ci, count, disc, wk,
                   fatal, hist>>

(* ------------------- pag: getNames, a worker goroutine ----------------- *)

\* sancrawler.go l.51-53: case <-stopChan: db.Close(); return
PagGetNames_Stop(w) ==
    /\ Running("pag") /\ wk[w].pc = "select"
    /\ doneChan # <<>>
    /\ doneChan' = Tail(doneChan)
    /\ wk' = [wk EXCEPT ![w].pc = "exit"]
    /\ UNCHANGED <<prog, units, aux, numCrawlers, numTotalCerts, idChan, nameChan,
                   sanChan, cnChan, domainChan, names, ret, cpc, ci, count,
                   disc, fatal, hist>>

\* sancrawler.go l.54-57: case tmpData := <-inChan; offset = tmpData.start
\* (inChan is sanChan for a SAN worker, cnChan for a Common-Name worker)
PagGetNames_TakeJob(w) ==
    /\ Running("pag") /\ wk[w].pc = "select"
    /\ LET inChan == IF wk[w].kind = "san" THEN sanChan ELSE cnChan
       IN  /\ inChan # <<>>
           /\ LET tmpData == Head(inChan)
                  job == <<wk[w].kind, tmpData.caID, 0>>
              IN  /\ wk' = [wk EXCEPT ![w].pc = "query", ![w].job = job,
                                      ![w].offset = tmpData.start, ![w].count = 0]
                  /\ deq' = [deq EXCEPT ![job] = @ + 1]
           /\ IF wk[w].kind = "san"
              THEN sanChan' = Tail(sanChan) /\ cnChan' = cnChan
              ELSE cnChan' = Tail(cnChan) /\ sanChan' = sanChan
    /\ UNCHANGED <<prog, units, aux, numCrawlers, numTotalCerts, idChan, nameChan,
                   domainChan, doneChan, names, ret, cpc, ci, count, disc,
                   fatal, pushed, fin>>

\* mutant: a page shorter than the LIMIT ends the unit
Exhausted_ShortPage(n) == n < pageLimit

\* sancrawler.go l.94: the unit is exhausted when the page held no row
Exhausted(n) == n = 0

\* sancrawler.go l.57, l.93-98: rows.Next() is false after n rows of the page
\* at offset: break on an empty page, else offset += count and query again
EndPage(w, n) ==
    IF Exhausted(n)
    THEN /\ wk' = [wk EXCEPT ![w].pc = "select", ![w].job = NoJob, ![w].out = <<>>,
                             ![w].offset = 0, ![w].count = 0]
         /\ fin' = [fin EXCEPT ![wk[w].job] = @ + 1]
    ELSE /\ wk' = [wk EXCEPT ![w].pc = "query", ![w].out = <<>>,
                             ![w].offset = @ + n, ![w].count = 0]
         /\ fin' = fin

\* sancrawler.go l.58-60: count = 0; db.Query(query, caID, org, offset) answers
PagGetNames_QueryOk(w) ==
    /\ Running("pag") /\ wk[w].pc = "query"
    /\ LET rows == Page(wk[w].kind, wk[w].job[2], wk[w].offset)
       IN  IF rows = <<>>
           THEN EndPage(w, 0)
           ELSE /\ wk' = [wk EXCEPT ![w].pc = "rows", ![w].count = 0, ![w].out = rows]
                /\ fin' = fin
    /\ queried' = [queried EXCEPT ![wk[w].job] = Append(@, wk[w].offset)]
    /\ UNCHANGED <<prog, units, lookup, outfile, pj, single, numCrawlers, numTotalCerts, chans, names, ret,
                   cpc, ci, count, disc, fatal, deq, pushed>>

\* mutant: a failed page query is retried once before the run is ended
PagGetNames_QueryFail_Retry(w) ==
    /\ Running("pag") /\ wk[w].pc = "query"
    /\ IF wk[w].tries = 0
       THEN /\ wk' = [wk EXCEPT ![w].tries = 1]
            /\ fatal' = fatal
       ELSE /\ Abort("page", wk[w].tries + 1)
            /\ wk' = wk
    /\ UNCHANGED <<prog, units, aux, numCrawlers, numTotalCerts, chans, names, ret,
                   cpc, ci, count, disc, hist>>

\* sancrawler.go l.61-64: db.Query fails, log.Fatal
PagGetNames_QueryFail(w) ==
    /\ Running("pag") /\ wk[w].pc = "query"
    /\ Abort("page", wk[w].tries + 1)
    /\ UNCHANGED <<prog, units, aux, numCrawlers, numTotalCerts, chans, names, ret,
                   cpc, ci, count, disc, wk, hist>>

\* sancrawler.go l.90: what the worker sends for a row
RowName(name) == ToLower(name)

\* sancrawler.go l.70-91: rows.Next(); Scan; count++; outChan <- name
\* (blocks while domainChan is full)
PagGetNames_Row(w) ==
    /\ Running("pag") /\ wk[w].pc = "rows"
    /\ Len(domainChan) < pagChanLen
    /\ domainChan' = Append(domainChan, RowName(Head(wk[w].out)))
    /\ pushed' = [pushed EXCEPT ![wk[w].job] = Append(@, RowName(Head(wk[w].out)))]
    /\ IF Tail(wk[w].out) = <<>>
       THEN EndPage(w, wk[w].count + 1)
       ELSE /\ wk' = [wk EXCEPT ![w].out = Tail(@), ![w].count = @ + 1]
            /\ fin' = fin
    /\ UNCHANGED <<prog, units, aux, numCrawlers, numTotalCerts, idChan, nameChan,
                   sanChan, cnChan, doneChan, names, ret, cpc, ci, count, disc,
                   fatal, deq>>

\* sancrawler.go l.82-84: rows.Scan fails on the next row, log.Fatal
PagGetNames_ScanFail(w) ==
    /\ Running("pag") /\ wk[w].pc = "rows"
    /\ Abort("scan", 1)
    /\ UNCHANGED <<prog, units, aux, numCrawlers, numTotalCerts, chans, names, ret,
                   cpc, ci, count, disc, wk, hist>>

(* ------------------------- main: the output step ----------------------- *)

\* part_001 l.305-339: getDomainsBy... has returned; the keys of the map are
\* printed and written to the output file
HttpMain_Output ==
    /\ Running("http") /\ cpc = "returned"
    /\ outfile' = IF lookup = "unparseable" THEN {} ELSE names
    /\ cpc' = "done"
    /\ UNCHANGED <<prog, units, lookup, pj, queried, single, numCrawlers, numTotalCerts,
                   chans, names, ret, ci, count, disc, wk, fatal, hist>>

\* sancrawler.go l.379-423
PagMain_Output ==
    /\ Running("pag") /\ cpc = "returned"
    /\ outfile' = ret
    /\ cpc' = "done"
    /\ UNCHANGED <<prog, units, lookup, pj, queried, single, numCrawlers, numTotalCerts,
                   chans, names, ret, ci, count, disc, wk, fatal, hist>>

HttpCoordinator ==
    \/ GetNames_LookupOk
    \/ GetNames_LookupFail
    \/ GetNames_LookupUnparseable
    \/ GetNames_SpawnDiscovery
    \/ GetNames_Count
    \/ GetNames_CountDone
    \/ GetNames_Spawn
    \/ GetNames_WaitLen
    \/ GetNames_WaitSelect
    \/ GetNames_Signal
    \/ GetNames_DrainLenName
    \/ GetNames_DrainLenDone
    \/ GetNames_DrainSelect
    \/ HttpMain_Output

HttpDiscovery(u) ==
    \/ Discover_GetOk(u)
    \/ Discover_GetFail(u)
    \/ Discover_SendID(u)
    \/ Discover_SendDone(u)

HttpWorker(w) ==
    \/ CrawlerFn_Done(w)
    \/ CrawlerFn_TakeID(w)
    \/ CrawlerFn_GetOk(w)
    \/ CrawlerFn_GetFail(w)
    \/ CrawlerFn_RetryOk(w)
    \/ CrawlerFn_RetryFail(w)
    \/ CrawlerFn_Push(w)

PagCoordinator ==
    \/ LoadCrawlerData_QueryOk
    \/ LoadCrawlerData_QueryFail
    \/ LoadCrawlerData_ScanFail
    \/ LoadCrawlerData_SendSan
    \/ LoadCrawlerData_SendCn
    \/ LoadCrawlerData_Return
    \/ GetDomainsByKeyword_Spawn
    \/ GetDomainsByKeyword_WaitLenSan
    \/ GetDomainsByKeyword_WaitLenCn
    \/ GetDomainsByKeyword_WaitSelect
    \/ GetDomainsByKeyword_Signal
    \/ GetDomainsByKeyword_DrainLenDone
    \/ GetDomainsByKeyword_DrainLenDomain
    \/ GetDomainsByKeyword_DrainSelect
    \/ PagMain_Output

PagWorker(w) ==
    \/ PagGetNames_Stop(w)
    \/ PagGetNames_TakeJob(w)
    \/ PagGetNames_QueryOk(w)
    \/ PagGetNames_QueryFail(w)
    \/ PagGetNames_ScanFail(w)
    \/ PagGetNames_Row(w)

Coordinator == HttpCoordinator \/ PagCoordinator
Discovery(u) == HttpDiscovery(u)
Worker(w) == HttpWorker(w) \/ PagWorker(w)

Next ==
    \/ Coordinator
    \/ \E u \in 1 .. MaxUnits : Discovery(u)
    \/ \E w \in Workers : Worker(w)

Spec == Init /\ [][Next]_vars

\* goroutines are scheduled fairly: a step that stays possible is taken
FairSpec ==
    /\ Spec
    /\ WF_vars(Coordinator)
    /\ \A u \in 1 .. MaxUnits : WF_vars(Discovery(u))
    /\ \A w \in Workers : WF_vars(Worker(w))

(* ----------------------- vocabulary of the claims ---------------------- *)

\* the coordinator has returned from a crawl (not from a failed lookup)
Returned == cpc \in {"returned", "done"} /\ lookup = "ok"

\* the coordinator is past the discovery phase
CrawlPhase == cpc \notin {"lookup", "spawnDisc", "count", "loadSan", "loadCn"}

JobQueuesEmpty == idChan = <<>> /\ sanChan = <<>> /\ cnChan = <<>>
JobQueueLen == Len(idChan) + Len(sanChan) + Len(cnChan)

Result == IF prog = "http" THEN names ELSE ret
ResultChan == IF prog = "http" THEN nameChan ELSE domainChan

\* every name a worker has sent on the result channel
Sent == UNION {Range(pushed[j]) : j \in JobKeys}

\* the jobs the discovery of this run puts on the job queues
AllJobs ==
    IF prog = "http"
    THEN {j \in JobKeys : j[1] = "id" /\ j[2] <= numUnits /\ j[3] <= units[j[2]]}
    ELSE {"san", "cn"} \X (1 .. numUnits) \X {0}

InQueue(j) ==
    CASE j[1] = "id" -> \E k \in DOMAIN idChan : idChan[k] = j
      [] j[1] = "san" -> \E k \in DOMAIN sanChan : sanChan[k].caID = j[2]
      [] OTHER -> \E k \in DOMAIN cnChan : cnChan[k].caID = j[2]

\* what the upstream holds for a job: the candidates a worker is to send for it
Expected(j) ==
    IF j[1] = "id"
    THEN Candidates(Body(j))
    ELSE [k \in DOMAIN Rows(j[1], j[2]) |-> ToLower(Rows(j[1], j[2])[k])]

Busy(w) == wk[w].pc \in {"get", "retry", "push", "query", "rows"}
Started(w) == wk[w].pc # "none"
Exited(w) == wk[w].pc = "exit"
Configured == IF prog = "http" THEN numCrawlers ELSE numCrawlers * 2

RECURSIVE SumCerts(_)
SumCerts(us) == IF us = <<>> THEN 0 ELSE Head(us) + SumCerts(Tail(us))

\* the discovery phase is over
DiscoveryComplete ==
    IF prog = "http"
    THEN count = numUnits /\ \A u \in 1 .. numUnits : disc[u].pc = "exit"
    ELSE cpc \notin {"lookup", "loadSan", "loadCn"} /\ numTotalCerts = SumCerts(units)

(* ------------------------------- claims -------------------------------- *)

\* C1: when the coordinator returns, every name a worker has sent on the
\* result channel is a key of the returned map and the result channel is empty.
C1_NoCandidateLost ==
    Returned => (Sent \subseteq Result /\ ResultChan = <<>>)

\* C2: in the crawl phase a pending termination signal implies empty job
\* queues; a worker that has exited left no job queued, and every job taken
\* from a queue is in the hands of a running worker or fully processed.
C2_TerminationSignalSafety ==
    /\ (CrawlPhase /\ doneChan # <<>>) => JobQueuesEmpty
    /\ \A w \in Workers : Exited(w) =>
          /\ JobQueuesEmpty
          /\ wk[w].job = NoJob /\ wk[w].out = <<>>
    /\ (\E w \in Workers : Exited(w)) =>
          \A j \in JobKeys : deq[j] > 0 =>
             \/ \E w \in Workers : Busy(w) /\ wk[w].job = j
             \/ fin[j] = 1 /\ pushed[j] = Expected(j)

\* a termination signal is pending while one worker is in the middle of a job
\* and another has already exited
C2_Witness ==
    /\ CrawlPhase /\ doneChan # <<>>
    /\ \E w \in Workers : Busy(w)
    /\ \E w \in Workers : Exited(w)

\* C3: no worker is started and no job is received before the discovery phase
\* is over (http: count = number of units), and once a worker has been started
\* no job queue ever grows.
C3_PhaseOrdering ==
    /\ []((\E w \in Workers : Started(w)) \/ (\E j \in JobKeys : deq[j] > 0)
             => DiscoveryComplete)
    /\ [][(\E w \in Workers : Started(w)) =>
             /\ Len(idChan') <= Len(idChan)
             /\ Len(sanChan') <= Len(sanChan)
             /\ Len(cnChan') <= Len(cnChan)]_vars

\* two units were discovered, workers run and a job has been received
C3_Witness ==
    /\ numUnits = 2
    /\ \E w \in Workers : Started(w)
    /\ \E j \in JobKeys : deq[j] > 0
    /\ JobQueueLen > 0

\* C4: every job is received from its queue at most once, no two workers hold
\* the same job, and a job once received is never on a queue again, also after
\* its fetch has failed.
C4_ExactlyOnceOwnership ==
    \A j \in JobKeys :
       /\ deq[j] <= 1
       /\ Cardinality({w \in Workers : wk[w].job = j}) <= 1
       /\ deq[j] >= 1 => ~InQueue(j)
       /\ (\E w \in Workers : wk[w].job = j) => deq[j] = 1

\* a worker's first fetch has failed while another worker holds another job
C4_Witness ==
    \E w, v \in Workers :
       /\ w # v
       /\ wk[w].pc = "retry"
       /\ Busy(v)
       /\ JobQueueLen > 0

\* C5: when the coordinator returns, every job of the discovery has been
\* received once and processed to its end once, all its candidates sent
\* (pag: each unit paginated to the empty page once per kind).
C5_JobCompleteness ==
    Returned =>
       \A j \in AllJobs : deq[j] = 1 /\ fin[j] = 1 /\ pushed[j] = Expected(j)

\* the coordinator has returned from a crawl of two units
C5_Witness == Returned /\ numUnits = 2 /\ Cardinality(AllJobs) >= 3

C7_CrawlLiveness ==
    /\ <>(Returned \/ aborted)
    /\ [](Returned => /\ \A w \in Workers : Started(w) => Exited(w)
                      /\ doneChan = <<>>)

\* C8: every entry of the result set is lower-case, and no two entries differ
\* only by letter case.
C8_CaseNormalised ==
    /\ \A n \in Result : IsLower(n)
    /\ \A a, b \in Result : ToLower(a) = ToLower(b) => a = b

\* C9: a worker fetches the page of a job at most twice, the second time only
\* after the first failed; whichever attempt answers, the candidates sent for
\* the job are those of its page; a failed retry ends the run with the worker
\* still on that job.
C9_SingleRetry ==
    /\ \A w \in Workers : prog = "http" =>
          /\ wk[w].tries <= 2
          /\ wk[w].pc = "get" => wk[w].tries = 0
          /\ wk[w].pc = "retry" => wk[w].tries = 1
          /\ wk[w].pc = "push" =>
                pushed[wk[w].job] \o wk[w].out = Candidates(Body(wk[w].job))
    /\ \A j \in JobKeys : (prog = "http" /\ fin[j] >= 1) =>
          pushed[j] = Candidates(Body(j))
    /\ fatal.kind = "record" =>
          /\ fatal.attempts = 2
          /\ \E w \in Workers : wk[w].pc = "retry" /\ fin[wk[w].job] = 0

\* a worker is sending the last candidate of a page it got at the second attempt
C9_Witness ==
    \E w \in Workers :
       /\ wk[w].pc = "push" /\ wk[w].tries = 2
       /\ Len(wk[w].out) = 1 /\ Len(pushed[wk[w].job]) >= 1

OutputReached == cpc = "done"

\* C11: once a fetch has failed fatally (second failure of a record fetch,
\* failed page query, failed discovery request, row-scan error) the process
\* takes no further step, and the output step is never reached in that run:
\* nothing is written, whatever names were collected before.
C11_NoPartialResult ==
    /\ [](aborted => ~OutputReached /\ outfile = {})
    /\ [][~aborted]_vars

\* a run ended by a fatal error after names had been collected
C11_Witness == aborted /\ Result # {} /\ fatal.kind \in {"record", "page", "scan"}

\* C12: a partition lookup that fails, times out or answers a body that is
\* not an array of objects after repair ends the run fatally, and the run
\* does not go on to the output step.
C12_PartitionFailureFatal ==
    lookup \in {"error", "unparseable"} => aborted /\ ~OutputReached

(* ------------------------ patchJSON (C13 - C15) ------------------------ *)
(* patchJSON is a function of its argument alone.  PatchSpec follows one   *)
(* call of it, byte by byte, on a body made of JSON objects and of the     *)
(* bytes crt.sh may put before, between and after them.                    *)

\* most objects in one body
MaxObjects == 2

\* JSON objects, as bytes
EmptyObj == <<"{", "}">>
FlatObj == <<"{", "\"", "a", "\"", ":", "1", "}">>
NestedObj == <<"{", "\"", "a", "\"", ":", "{", "}", "}">>
CloseInString == <<"{", "\"", "a", "\"", ":", "\"", "}", "\"", "}">>
OpenInString == <<"{", "\"", "a", "\"", ":", "\"", "{", "\"", "}">>
JsonObjects == {EmptyObj, FlatObj, NestedObj, CloseInString, OpenInString}

\* bytes outside the objects
Leads == {<<>>, <<" ">>}
Gaps == {<<>>, <<" ">>}
Tails == {<<>>, <<"\n">>}

RECURSIVE Join(_, _)
\* the objects one after the other, sep between two of them
Join(objs, sep) ==
    IF objs = <<>> THEN <<>>
    ELSE IF Len(objs) = 1 THEN objs[1]
    ELSE objs[1] \o sep \o Join(Tail(objs), sep)

\* the body the service sends
BodyBytes(lead, objs, gap, tail) == lead \o Join(objs, gap) \o tail

\* longest body that is no sequence of objects
MaxRaw == 3

\* the bytes of such a body: any bytes, braces balanced or not
RawBytes == {"{", "}", "a"}

PatchInit ==
    /\ prog = "patch"
    /\ units = <<>> /\ numCrawlers = 0 /\ numTotalCerts = 0
    /\ idChan = <<>> /\ nameChan = <<>>
    /\ sanChan = <<>> /\ cnChan = <<>> /\ domainChan = <<>>
    /\ doneChan = <<>>
    /\ names = {} /\ ret = {}
    /\ cpc = "lookup" /\ ci = 0 /\ count = 0
    /\ disc = [u \in 1 .. MaxUnits |-> IdleDisc]
    /\ wk = [w \in Workers |-> IdleWorker]
    /\ fatal = NoFatal
    /\ deq = [j \in JobKeys |-> 0]
    /\ pushed = [j \in JobKeys |-> <<>>]
    /\ fin = [j \in JobKeys |-> 0]
    /\ lookup = "none"
    /\ outfile = {}
    /\ queried = [j \in JobKeys |-> <<>>]
    /\ single = NoQuery
    /\ \/ \E k \in 0 .. MaxObjects :
            \E objs \in [1 .. k -> JsonObjects], lead \in Leads, gap \in Gaps, tail \in Tails :
              pj = [NoCall EXCEPT !.pc = "call", !.objs = objs, !.lead = lead,
                                  !.gap = IF k > 1 THEN gap ELSE <<>>, !.tail = tail,
                                  !.jsondata = BodyBytes(lead, objs,
                                                         IF k > 1 THEN gap ELSE <<>>, tail)]
       \/ \E n \in 0 .. MaxRaw :
            \E raw \in [1 .. n -> RawBytes] :
              pj = [NoCall EXCEPT !.pc = "call", !.lead = raw,
                                  !.jsondata = BodyBytes(raw, <<>>, <<>>, <<>>)]

PatchUnchanged ==
    UNCHANGED <<prog, units, numCrawlers, numTotalCerts, chans, names, ret, cpc,
                ci, count, disc, wk, fatal, hist, lookup, outfile, queried, single>>

\* part_001 l.100-108: balanced := 0; builder.WriteByte('[')
PatchJSON_Begin ==
    /\ prog = "patch" /\ pj.pc = "call"
    /\ pj' = [pj EXCEPT !.pc = "loop", !.balanced = 0, !.i = 0, !.builder = <<"[">>]
    /\ PatchUnchanged

\* part_001 l.112-116: the brace counter after byte b
Balance(balanced, b) ==
    IF b = "{" THEN balanced + 1
    ELSE IF b = "}" THEN balanced - 1
    ELSE balanced

\* mutant: a comma also after the last byte
NeedsComma_AlsoLast(balanced, i, len) == balanced = 0

\* part_001 l.117: a comma follows the byte at index i
NeedsComma(balanced, i, len) == balanced = 0 /\ i # len - 1

\* mutant: white space is not copied
PatchJSON_Byte_SkipSpace ==
    /\ prog = "patch" /\ pj.pc = "loop"
    /\ pj.i < Len(pj.jsondata)
    /\ LET b == pj.jsondata[pj.i + 1]
           bal == Balance(pj.balanced, b)
           comma == NeedsComma(bal, pj.i, Len(pj.jsondata))
           copy == IF b \in {" ", "\n"} THEN <<>> ELSE <<b>>
       IN  pj' = [pj EXCEPT !.balanced = bal,
                            !.builder = IF comma THEN @ \o copy \o <<",">> ELSE @ \o copy,
                            !.commas = IF comma THEN Append(@, pj.i) ELSE @,
                            !.i = @ + 1]
    /\ PatchUnchanged

\* part_001 l.110-120: one iteration of the loop (i counts from 0)
PatchJSON_Byte ==
    /\ prog = "patch" /\ pj.pc = "loop"
    /\ pj.i < Len(pj.jsondata)
    /\ LET b == pj.jsondata[pj.i + 1]
           bal == Balance(pj.balanced, b)
           comma == NeedsComma(bal, pj.i, Len(pj.jsondata))
       IN  pj' = [pj EXCEPT !.balanced = bal,
                            !.builder = IF comma THEN @ \o <<b, ",">> ELSE Append(@, b),
                            !.commas = IF comma THEN Append(@, pj.i) ELSE @,
                            !.i = @ + 1]
    /\ PatchUnchanged

\* part_001 l.122-123: builder.WriteByte(']'); return builder.String()
PatchJSON_Return ==
    /\ prog = "patch" /\ pj.pc = "loop"
    /\ pj.i = Len(pj.jsondata)
    /\ pj' = [pj EXCEPT !.pc = "done", !.builder = Append(@, "]")]
    /\ PatchUnchanged

PatchNext ==
    \/ PatchJSON_Begin
    \/ PatchJSON_Byte
    \/ PatchJSON_Return

PatchSpec == PatchInit /\ [][PatchNext]_vars

\* patchJSON has returned
Patched == pj.pc = "done"

\* nothing but the objects is in the body
NoStrayBytes == pj.lead = <<>> /\ pj.gap = <<>> /\ pj.tail = <<>>

RECURSIVE Depths(_, _)
\* the brace depth after each byte of s, counted from depth d
Depths(s, d) ==
    IF s = <<>> THEN <<>>
    ELSE <<Balance(d, s[1])>> \o Depths(Tail(s), Balance(d, s[1]))

\* obj starts with '{' and ends with the '}' that matches it
BraceBalanced(obj) ==
    /\ obj # <<>> /\ obj[1] = "{" /\ obj[Len(obj)] = "}"
    /\ \A k \in 1 .. Len(obj) :
         IF k = Len(obj) THEN Depths(obj, 0)[k] = 0 ELSE Depths(obj, 0)[k] > 0

\* the array of the objects: '[', the objects separated by one ',', ']'
ArrayOf(objs) == <<"[">> \o Join(objs, <<",">>) \o <<"]">>

\* C13: on k >= 0 brace-balanced objects concatenated with no byte between
\* them patchJSON returns '[', the objects in their order separated by exactly
\* one ',', and ']': "[]" for k = 0, no trailing comma for k = 1, no comma
\* inside a nested object.
C13_RepairBalanced ==
    (Patched /\ NoStrayBytes /\ \A k \in DOMAIN pj.objs : BraceBalanced(pj.objs[k]))
        => pj.builder = ArrayOf(pj.objs)

\* two objects, the first with a nested object, repaired
C13_Witness ==
    /\ Patched /\ NoStrayBytes
    /\ pj.objs = <<NestedObj, FlatObj>>
    /\ pj.commas = <<Len(NestedObj) - 1>>

\* C14: on any concatenation of valid JSON objects, also ones whose string
\* values hold '{' or '}', patchJSON returns a valid JSON array of the same
\* objects in the same order.  patchJSON copies every byte and adds commas
\* only, so the result is that array exactly when it is ArrayOf(objs).
C14_RepairAnyObjects ==
    (Patched /\ NoStrayBytes) => pj.builder = ArrayOf(pj.objs)

\* C15: a ',' is written only right after a '}' that brings the counter back
\* to zero while more input remains, and after no other byte.
C15_CommaOnlyAfterClosingBrace ==
    \A k \in DOMAIN pj.commas :
        /\ pj.jsondata[pj.commas[k] + 1] = "}"
        /\ Depths(pj.jsondata, 0)[pj.commas[k] + 1] = 0
        /\ pj.commas[k] + 1 < Len(pj.jsondata)

(* ------------------------- extraction (C16, C17) ----------------------- *)

\* http jobs whose page a worker has processed to the end
Processed == {j \in JobKeys : j[1] = "id" /\ fin[j] >= 1}

\* no worker still holds job j
Released(j) == \A w \in Workers : wk[w].job # j

\* C16: for a page with N Common-Name matches the worker sends exactly
\* max(N-1, 0) Common-Name candidates, the 2nd to N-th names in page order
\* without prefix and delimiter, never the first; for N = 0 and N = 1 it sends
\* none, raises no error and goes on to its next job.
C16_CommonNameExtraction ==
    \A j \in Processed :
        LET cn == PageNames(j).cn
            n == IF Len(cn) > 0 THEN Len(cn) - 1 ELSE 0
        IN  /\ Len(pushed[j]) = n + Len(PageNames(j).dns)
            /\ \A k \in 1 .. n : pushed[j][k] = cn[k + 1]
            /\ Released(j)

\* a page with three Common Names and a page with none have been processed
C16_Witness ==
    \E j1, j2 \in Processed :
        /\ Len(PageNames(j1).cn) = 3 /\ Len(pushed[j1]) = 2
        /\ Len(PageNames(j2).cn) = 0 /\ pushed[j2] = <<>>

\* C17: for a page with M DNS matches the worker sends exactly M SAN
\* candidates, one per match in page order, the first included, without
\* "DNS:" and delimiter; for M = 0 it sends none and raises no error.
C17_SanExtraction ==
    \A j \in Processed :
        LET dns == PageNames(j).dns
            first == Len(pushed[j]) - Len(dns)
        IN  /\ first >= 0
            /\ first = (IF PageNames(j).cn = <<>> THEN 0 ELSE Len(PageNames(j).cn) - 1)
            /\ \A k \in 1 .. Len(dns) : pushed[j][first + k] = dns[k]

\* a page with two DNS names has been processed
C17_Witness ==
    \E j \in Processed :
        /\ Len(PageNames(j).dns) = 2
        /\ SubSeq(pushed[j], Len(pushed[j]) - 1, Len(pushed[j])) = PageNames(j).dns

(* ------------------------ worker count (C18, C19) ---------------------- *)

\* loadCrawlerData has returned its worker count
Loaded == prog = "pag" /\ lookup = "ok" /\ cpc \notin {"lookup", "loadSan", "loadCn"}

\* the spawn loop of the paginated coordinator is over
Spawned == Loaded /\ cpc # "spawn"

\* the signal loop of the paginated coordinator is over
Signalled == Spawned /\ cpc \notin {"waitLen", "waitLen2", "waitSel", "signal"}

StartedWorkers == {w \in Workers : Started(w)}

\* termination signals sent so far: those waiting in doneChan and those consumed
SignalsSent == Len(doneChan) + Cardinality({w \in Workers : Exited(w)})

\* C18: for units with estimated counts summing to T loadCrawlerData returns
\* max(1, floor(T / 10000)): 1 for {5, 15000} and for {5000, 6000}, 2 for
\* {12000, 9000}, 1 for no unit at all.
C18_WorkerCountDerivation ==
    /\ Loaded =>
          LET T == SumCerts(units)
          IN  numCrawlers = (IF T \div 10000 > 1 THEN T \div 10000 ELSE 1)
    /\ NumCrawlers(5 + 15000) = 1
    /\ NumCrawlers(5000 + 6000) = 1
    /\ NumCrawlers(12000 + 9000) = 2
    /\ NumCrawlers(0) = 1

\* loadCrawlerData has summed 12000 and 9000
C18_Witness == Loaded /\ units = <<12000, 9000>> /\ numCrawlers = 2

\* C19 as stated: the paginated coordinator starts exactly workerCount workers
\* and sends exactly workerCount termination signals.
C19_StartsWorkerCount ==
    /\ Spawned => Cardinality(StartedWorkers) = numCrawlers
    /\ Signalled => SignalsSent = numCrawlers

\* C19 amended: it starts workerCount SAN workers and workerCount Common-Name
\* workers, 2 * workerCount in all, and sends 2 * workerCount signals.
C19_StartsTwoPerCrawler ==
    /\ Spawned =>
          /\ Cardinality(StartedWorkers) = 2 * numCrawlers
          /\ Cardinality({w \in StartedWorkers : wk[w].kind = "san"}) = numCrawlers
          /\ Cardinality({w \in StartedWorkers : wk[w].kind = "cn"}) = numCrawlers
    /\ Signalled => SignalsSent = 2 * numCrawlers

\* a run with workerCount = 2 has ended: four workers have exited
C19_Witness ==
    /\ Signalled /\ Returned /\ numCrawlers = 2
    /\ Cardinality({w \in Workers : Exited(w)}) = 4

(* ---------------------------- pagination (C20) ------------------------- *)

RECURSIVE PageOffsets(_, _, _)
\* the offsets of the queries that read a unit page by page from offset until
\* the upstream answers an empty page: each is the one before plus the size
\* of the page found there
PageOffsets(kind, caID, offset) ==
    IF Page(kind, caID, offset) = <<>> THEN <<offset>>
    ELSE <<offset>> \o PageOffsets(kind, caID, offset + Len(Page(kind, caID, offset)))

\* s is a prefix of t
IsPrefix(s, t) == Len(s) <= Len(t) /\ SubSeq(t, 1, Len(s)) = s

\* the jobs of the paginated program
PagJobs == {j \in JobKeys : j[1] \in {"san", "cn"}}

Collecting == cpc \in {"waitSel", "drainSel"}

\* C21: the result map is written by the coordinator only, with a name it
\* received from the result channel; a step that changes the map is no step of
\* a worker or of a discovery task, and the map no longer changes once the
\* coordinator has handed it to main.
C21_WriteSafety ==
    [][(names' # names \/ ret' # ret) =>
          /\ Collecting /\ cpc' # cpc
          /\ wk' = wk /\ disc' = disc
          /\ ResultChan # <<>>
          /\ names' \cup ret' = names \cup ret \cup {Head(ResultChan)}
          /\ ~(cpc \in {"returned", "done"})]_vars

\* the map already holds a name while a worker is sending another one
C21_Witness ==
    /\ Result # {}
    /\ \E w \in Workers : wk[w].pc \in {"push", "rows"}
    /\ ResultChan # <<>>

(* ---------------------- bounded job queues (C22) ----------------------- *)

\* a discovery producer is at a send on a job queue that is full
ProducerBlocked ==
    \/ /\ prog = "http"
       /\ \E u \in 1 .. numUnits :
            disc[u].pc = "send" /\ disc[u].ids # <<>> /\ Len(idChan) = maxChanLen
    \/ /\ prog = "pag"
       /\ \/ cpc = "loadSan" /\ ci < numUnits /\ Len(sanChan) = pagChanLen
          \/ cpc = "loadCn" /\ Len(cnChan) = pagChanLen

\* C22: whatever the number of discovered jobs, no discovery producer is ever
\* blocked on a full job queue while no worker exists to drain it (so that
\* discovery always completes and the workers are started).
C22_DiscoveryNeverBlocked ==
    ~(ProducerBlocked /\ ~aborted /\ StartedWorkers = {})

(* ----------------------- shared signal channel (C23) ------------------- *)

ExitedDiscoveries == {u \in 1 .. numUnits : disc[u].pc = "exit"}

\* termination signals the http coordinator has sent
HttpSignalsSent ==
    CASE cpc \in {"lookup", "spawnDisc", "count", "spawn", "waitLen", "waitSel"} -> 0
      [] cpc = "signal" -> ci
      [] OTHER -> numCrawlers

\* C23: in the HTTP program doneChan carries discovery completions first and
\* termination signals afterwards: each discovery task sends one signal, after
\* it has enqueued all its identifiers; the coordinator consumes one per unit;
\* doneChan is empty when the first worker is started; the signals workers
\* consume are termination signals only.
C23_SignalChannelDiscipline ==
    (prog = "http" /\ lookup = "ok") =>
       /\ \A u \in ExitedDiscoveries :
             /\ disc[u].ids = <<>>
             /\ \A k \in 1 .. units[u] : InQueue(ID(u, k)) \/ deq[ID(u, k)] > 0
       /\ cpc \in {"spawnDisc", "count"} =>
             count + Len(doneChan) = Cardinality(ExitedDiscoveries)
       /\ cpc = "spawn" => count = numUnits /\ doneChan = <<>>
       /\ CrawlPhase =>
             Cardinality({w \in Workers : Exited(w)}) + Len(doneChan) = HttpSignalsSent

\* the first worker is about to be started after two units were counted
C23_Witness ==
    /\ prog = "http" /\ cpc = "spawn" /\ ci = 0
    /\ numUnits = 2 /\ count = 2
    /\ idChan # <<>>

(* ----------------------- schedule independence (C24) ------------------- *)

\* the normalised candidates of all jobs of the run
AllCandidates ==
    UNION {{ToLower(Expected(j)[k]) : k \in DOMAIN Expected(j)} : j \in AllJobs}

\* C24: for given upstream responses the set the coordinator returns is the
\* same on every interleaving and for every worker count: it is the set of the
\* normalised candidates of all jobs.
C24_ScheduleIndependence == Returned => Result = AllCandidates

(* ------------------- the single-query program (C25) -------------------- *)
(* src/unnamed/part_000: getNames runs one query and reads its rows, each  *)
(* with a Common Name and a SAN column, into the map.                      *)

\* most rows the query returns
MaxRows == 2

\* values of the two name columns
ColumnNames == {<<"a">>, <<"A">>, <<"b">>}
QueryRows == [common : ColumnNames, san : ColumnNames]

SingleInit ==
    /\ prog = "single"
    /\ units = <<>> /\ numCrawlers = 0 /\ numTotalCerts = 0
    /\ idChan = <<>> /\ nameChan = <<>>
    /\ sanChan = <<>> /\ cnChan = <<>> /\ domainChan = <<>>
    /\ doneChan = <<>>
    /\ names = {} /\ ret = {}
    /\ cpc = "query" /\ ci = 0 /\ count = 0
    /\ disc = [u \in 1 .. MaxUnits |-> IdleDisc]
    /\ wk = [w \in Workers |-> IdleWorker]
    /\ fatal = NoFatal
    /\ deq = [j \in JobKeys |-> 0]
    /\ pushed = [j \in JobKeys |-> <<>>]
    /\ fin = [j \in JobKeys |-> 0]
    /\ lookup = "none"
    /\ outfile = {}
    /\ queried = [j \in JobKeys |-> <<>>]
    /\ pj = NoCall
    /\ \E n \in 0 .. MaxRows :
         \E all \in [1 .. n -> QueryRows] : single = [all |-> all, left |-> all]

SingleUnchanged ==
    UNCHANGED <<prog, units, numCrawlers, numTotalCerts, chans, ret, ci, count,
                disc, wk, hist, lookup, outfile, queried, pj>>

\* part_000 l.44: db.Query answers
Single_QueryOk ==
    /\ Running("single") /\ cpc = "query"
    /\ cpc' = "rows"
    /\ UNCHANGED <<names, single, fatal>>
    /\ SingleUnchanged

\* part_000 l.46-48: db.Query fails, log.Fatal
Single_QueryFail ==
    /\ Running("single") /\ cpc = "query"
    /\ Abort("query", 1)
    /\ UNCHANGED <<names, single, cpc>>
    /\ SingleUnchanged

\* part_000 l.75-81: the row is passed over
Skipped(common, san) == common \in names \/ san \in names

\* part_000 l.52-85: rows.Next(); Scan; lower-case both names; continue if
\* either is a key of the map already, else store both
Single_Row ==
    /\ Running("single") /\ cpc = "rows"
    /\ single.left # <<>>
    /\ LET common == ToLower(Head(single.left).common)
           san == ToLower(Head(single.left).san)
       IN  names' = IF Skipped(common, san) THEN names ELSE names \cup {common, san}
    /\ single' = [single EXCEPT !.left = Tail(@)]
    /\ UNCHANGED <<cpc, fatal>>
    /\ SingleUnchanged

\* part_000 l.64-66: rows.Scan fails, log.Fatal
Single_ScanFail ==
    /\ Running("single") /\ cpc = "rows"
    /\ single.left # <<>>
    /\ Abort("scan", 1)
    /\ UNCHANGED <<names, single, cpc>>
    /\ SingleUnchanged

\* part_000 l.52, l.87: rows.Next() is false; return names
Single_Return ==
    /\ Running("single") /\ cpc = "rows"
    /\ single.left = <<>>
    /\ cpc' = "returned"
    /\ UNCHANGED <<names, single, fatal>>
    /\ SingleUnchanged

SingleNext ==
    \/ Single_QueryOk
    \/ Single_QueryFail
    \/ Single_Row
    \/ Single_ScanFail
    \/ Single_Return

SingleSpec == SingleInit /\ [][SingleNext]_vars

\* the lower-cased values of both columns of every row of the query
AllColumnNames ==
    UNION {{ToLower(single.all[k].common), ToLower(single.all[k].san)} :
             k \in DOMAIN single.all}

\* C25: in the single-query program the result is the set of the lower-cased
\* values of both name columns of every row; a row one of whose names is in
\* the map already still contributes its other name.
C25_SingleQueryComplete ==
    (prog = "single" /\ cpc = "returned") => names = AllColumnNames

(* ------------------------ patchJSON's frame (C26) ---------------------- *)

NotComma(b) == b # ","

\* C26: for every input, braces balanced or not, patchJSON returns '[', the
\* input bytes unchanged and in their order with commas inserted after some of
\* them, and ']'; no comma follows the last input byte.  (No body of PatchInit
\* holds a comma, so the bytes of the result that are no comma are the input.)
C26_InputPreserved ==
    Patched =>
       LET out == pj.builder
           n == Len(out)
       IN  /\ n >= 2 /\ out[1] = "[" /\ out[n] = "]"
           /\ SelectSeq(SubSeq(out, 2, n - 1), NotComma) = pj.jsondata
           /\ out[n - 1] # ","

\* a body that starts with a closing brace has been patched
C26_Witness ==
    /\ Patched
    /\ pj.jsondata = <<"}", "{", "a">>
    /\ pj.builder = <<"[", "}", "{", ",", "a", "]">>

====
